---- MODULE Spec2Model ----
(***************************************************************************)
(* Model of checkpoint2ryujinx.py: the ExtraData0 record writer, the slot  *)
(* allocator, the IMKVDB archive parser/updater and the import loop.       *)
(*                                                                         *)
(* Representation.  A Python str is a sequence of one-character strings.   *)
(* A Python bytes/bytearray is a sequence of numbers in 0..255.  A Python  *)
(* int that holds an identifier is a sequence of base-16 digits, most      *)
(* significant first, without leading zeros (<<>> is 0), so that 64-bit    *)
(* and wider values are exact.  A Python dict is a sequence of <<k, v>>    *)
(* pairs in insertion order.  A call that can raise returns a record with  *)
(* an err field.                                                           *)
(***************************************************************************)
EXTENDS Integers, Sequences, FiniteSets, TLC

VARIABLES
    mode,      \* which harness drives the state: "unit", "archive" or "import"
    uin,       \* unit harness: the argument of the function under test
    uout,      \* unit harness: its result, NoRes before the call
    arc,       \* the file imkvdb.arc: [exists, bytes]
    origin,    \* archive harness: how the bytes of arc were produced
    loaded,    \* archive harness: result of the last parse_imkvdb call
    lastUpd,   \* archive harness: the last update_imkvdb call
    nUpd,      \* archive harness: number of update_imkvdb calls so far
    src,       \* import: listing of the Checkpoint base directory
    slots,     \* import: the directory bis/user/save, name -> entry
    run,       \* import: number of the current run of main
    idx,       \* import: position of main's loop in the source listing
    status,    \* import: "running", "done" or "crashed"
    sysdirs,   \* import: names of the entries of bis/system/save
    firstUse,  \* import: slot each source folder used in run 1
    last       \* import: what the last loop iteration did

vars == <<mode, uin, uout, arc, origin, loaded, lastUpd, nUpd,
          src, slots, sysdirs, run, idx, status, firstUse, last>>

unitVars    == <<uin, uout>>
archiveVars == <<origin, loaded, lastUpd, nUpd>>
importVars  == <<src, slots, sysdirs, run, idx, status, firstUse, last>>

NoRes == [none |-> TRUE]

-----------------------------------------------------------------------------
(* Strings, integers and bytes                                             *)

HexChars == <<"0","1","2","3","4","5","6","7","8","9","a","b","c","d","e","f">>

\* Value of a character as a base-16 digit, -1 when it is none.
DigitOf(c) ==
    CASE c = "0" -> 0  [] c = "1" -> 1  [] c = "2" -> 2  [] c = "3" -> 3
      [] c = "4" -> 4  [] c = "5" -> 5  [] c = "6" -> 6  [] c = "7" -> 7
      [] c = "8" -> 8  [] c = "9" -> 9
      [] c = "a" -> 10 [] c = "b" -> 11 [] c = "c" -> 12
      [] c = "d" -> 13 [] c = "e" -> 14 [] c = "f" -> 15
      [] c = "A" -> 10 [] c = "B" -> 11 [] c = "C" -> 12
      [] c = "D" -> 13 [] c = "E" -> 14 [] c = "F" -> 15
      [] OTHER -> -1

Zeros(n) == [i \in 1..n |-> 0]

RECURSIVE Norm(_)
Norm(ds) == IF ds = <<>> THEN <<>>
            ELSE IF Head(ds) = 0 THEN Norm(Tail(ds)) ELSE ds

PadLeft(ds, w) == IF Len(ds) >= w THEN ds ELSE Zeros(w - Len(ds)) \o ds

\* int(s, 16) on strings made of letters and digits: ValueError on the empty
\* string and on any character that is no hexadecimal digit.
IntHex(s) ==
    IF s = <<>> \/ \E i \in 1..Len(s) : DigitOf(s[i]) = -1
    THEN [err |-> TRUE, val |-> <<>>]
    ELSE [err |-> FALSE, val |-> Norm([i \in 1..Len(s) |-> DigitOf(s[i])])]

\* format(v, '016x') / f"{v:016x}"
HexString(p) == [i \in 1..Len(p) |-> HexChars[p[i] + 1]]

Format016x(v) == HexString(PadLeft(v, 16))

BigLess(a, b) ==
    \/ Len(a) < Len(b)
    \/ /\ Len(a) = Len(b)
       /\ \E i \in 1..Len(a) : a[i] < b[i] /\ \A j \in 1..(i-1) : a[j] = b[j]

BigMax(S) == CHOOSE m \in S : \A x \in S : ~BigLess(m, x)

RECURSIVE BigInc(_)
BigInc(v) ==
    IF v = <<>> THEN <<1>>
    ELSE IF v[Len(v)] < 15 THEN [v EXCEPT ![Len(v)] = @ + 1]
    ELSE Append(BigInc(SubSeq(v, 1, Len(v) - 1)), 0)

\* struct.pack('<Q', v): struct.error when v does not fit 64 bits.
LittleEndian8(p) == [k \in 1..8 |-> 16 * p[17 - 2*k] + p[18 - 2*k]]

PackQ(v) ==
    IF Len(v) > 16 THEN [err |-> TRUE, val |-> <<>>]
    ELSE [err |-> FALSE, val |-> LittleEndian8(PadLeft(v, 16))]

\* struct.unpack('<Q', b)[0] on 8 bytes
UnpackQ(b) ==
    Norm([i \in 1..16 |-> IF i % 2 = 1 THEN b[(18 - i) \div 2] \div 16
                                       ELSE b[(18 - i) \div 2] % 16])

\* struct.pack('<I', n) for a length or a count
PackI(n) == <<n % 256, (n \div 256) % 256, (n \div 65536) % 256,
              (n \div 16777216) % 256>>

\* struct.unpack('<I', b)[0]: struct.error unless b holds 4 bytes.
UnpackI(b) ==
    IF Len(b) # 4 THEN [err |-> TRUE, val |-> 0]
    ELSE [err |-> FALSE,
          val |-> b[1] + 256 * b[2] + 65536 * b[3] + 16777216 * b[4]]

\* bytes.fromhex(s): ValueError on an odd length or a non-hex character.
FromHex(s) ==
    IF Len(s) % 2 = 1 \/ \E i \in 1..Len(s) : DigitOf(s[i]) = -1
    THEN [err |-> TRUE, val |-> <<>>]
    ELSE [err |-> FALSE,
          val |-> [k \in 1..(Len(s) \div 2) |->
                      16 * DigitOf(s[2*k - 1]) + DigitOf(s[2*k])]]

\* int.from_bytes(b, 'big')
IntFromBytesBig(b) ==
    Norm([i \in 1..(2 * Len(b)) |-> IF i % 2 = 1 THEN b[(i + 1) \div 2] \div 16
                                               ELSE b[i \div 2] % 16])

\* bytearray slice assignment buf[i:j] = data, 0 <= i <= j: the slice is
\* replaced by data whatever its length, so the buffer may grow or shrink.
SliceAssign(buf, i, j, data) ==
    LET n  == Len(buf)
        lo == IF i > n THEN n ELSE i
        hi == IF j > n THEN n ELSE IF j < lo THEN lo ELSE j
    IN SubSeq(buf, 1, lo) \o data \o SubSeq(buf, hi + 1, n)

Raised == [err |-> TRUE, val |-> <<>>]
Returned(v) == [err |-> FALSE, val |-> v]

-----------------------------------------------------------------------------
(* create_extradata0_file                                                  *)

RecordSize == 512

\* "00000000000000010000000000000000"
DefaultUserIdHex == [i \in 1..32 |-> IF i = 16 THEN "1" ELSE "0"]
DefaultFlags       == <<0, 0, 0, 0>>
DefaultJournalSize == <<16, 0, 0, 0>>
DefaultCommitId    == <<0, 0, 0, 0, 0, 0, 0, 0>>

\* Lines 38-44: the template bytearray after its six slice assignments.
Template(game_id_little_endian, user_id_bytes, flags, journal_size, commit_id) ==
    SliceAssign(
      SliceAssign(
        SliceAssign(
          SliceAssign(
            SliceAssign(
              SliceAssign(Zeros(RecordSize), 0, 8, game_id_little_endian),
              8, 24, user_id_bytes),
            64, 72, game_id_little_endian),
          80, 84, flags),
        96, 104, journal_size),
      104, 112, commit_id)

\* Line 37, then the template.
PackAndFill(game_id_bytes, user_id_bytes, flags, journal_size, commit_id) ==
    IF PackQ(IntFromBytesBig(game_id_bytes)).err THEN Raised
    ELSE Returned(Template(PackQ(IntFromBytesBig(game_id_bytes)).val,
                           user_id_bytes, flags, journal_size, commit_id))

\* The bytes create_extradata0_file writes to ExtraData0, or err when
\* bytes.fromhex or struct.pack raises.
ExtraData0Bytes(game_id_hex, user_id_hex, flags, journal_size, commit_id) ==
    IF FromHex(game_id_hex).err \/ FromHex(user_id_hex).err THEN Raised
    ELSE PackAndFill(FromHex(game_id_hex).val, FromHex(user_id_hex).val,
                     flags, journal_size, commit_id)

create_extradata0_file(game_id_hex) ==
    ExtraData0Bytes(game_id_hex, DefaultUserIdHex, DefaultFlags,
                    DefaultJournalSize, DefaultCommitId)

-----------------------------------------------------------------------------
(* get_next_ryujinx_folder                                                 *)

\* An allocator that returns the largest existing name instead of the next
get_next_ryujinx_folder_max(existing_folders) ==
    IF existing_folders = {}
    THEN [err |-> FALSE, val |-> Format016x(<<1>>)]
    ELSE IF \E f \in existing_folders : IntHex(f).err
         THEN [err |-> TRUE, val |-> <<>>]
         ELSE [err |-> FALSE,
               val |-> Format016x(BigMax({IntHex(f).val : f \in existing_folders}))]

\* existing_folders is the set of names of the directories of the base
\* directory.  max(int(folder, 16) ...) raises ValueError as soon as one
\* name is no hexadecimal number.
get_next_ryujinx_folder(existing_folders) ==
    IF existing_folders = {}
    THEN [err |-> FALSE, val |-> Format016x(<<1>>)]
    ELSE IF \E f \in existing_folders : IntHex(f).err
         THEN [err |-> TRUE, val |-> <<>>]
         ELSE LET max_folder == BigMax({IntHex(f).val : f \in existing_folders})
              IN [err |-> FALSE, val |-> Format016x(BigInc(max_folder))]

-----------------------------------------------------------------------------
(* imkvdb.arc: parse_imkvdb, the serialisation loops and update_imkvdb     *)

MagicIMKV == <<73, 77, 75, 86>>   \* b'IMKV'
MagicIMEN == <<73, 77, 69, 78>>   \* b'IMEN'

\* file.read(n) with the file position at offset pos: at most n bytes, fewer
\* at the end of the file.
ReadAt(bytes, pos, n) ==
    SubSeq(bytes, pos + 1, IF pos + n > Len(bytes) THEN Len(bytes) ELSE pos + n)

HasKey(entries, k) == \E i \in 1..Len(entries) : entries[i][1] = k

ValueOf(entries, k) ==
    entries[CHOOSE i \in 1..Len(entries) : entries[i][1] = k][2]

\* entries[k] = v on a dict: a present key keeps its place.
DictSet(entries, k, v) ==
    IF HasKey(entries, k)
    THEN [i \in 1..Len(entries) |->
             IF entries[i][1] = k THEN <<k, v>> ELSE entries[i]]
    ELSE Append(entries, <<k, v>>)

\* The loop "for _ in range(num_entries)" of parse_imkvdb, with the file
\* position at pos and `left` iterations to go.
RECURSIVE ParseEntries(_, _, _, _)
ParseEntries(bytes, pos, left, entries) ==
    IF left = 0 THEN [err |-> FALSE, entries |-> entries]
    ELSE IF ReadAt(bytes, pos, 4) # MagicIMEN
         THEN [err |-> FALSE, entries |-> entries]      \* break
         ELSE LET ks == UnpackI(ReadAt(bytes, pos + 4, 4))
                  vs == UnpackI(ReadAt(bytes, pos + 8, 4))
              IN IF ks.err \/ vs.err
                 THEN [err |-> TRUE, entries |-> <<>>]  \* struct.error
                 ELSE LET key   == ReadAt(bytes, pos + 12, ks.val)
                          value == ReadAt(bytes, pos + 12 + Len(key), vs.val)
                      IN ParseEntries(bytes,
                                      pos + 12 + Len(key) + Len(value),
                                      left - 1,
                                      DictSet(entries, key, value))

\* parse_imkvdb on the file [exists, bytes]; err is an exception that
\* leaves the function (only FileNotFoundError is caught).
parse_imkvdb(file) ==
    IF ~file.exists THEN [err |-> FALSE, entries |-> <<>>]
    ELSE LET header == ReadAt(file.bytes, 0, 12)
         IN IF SubSeq(header, 1, IF Len(header) < 4 THEN Len(header) ELSE 4)
                  # MagicIMKV
            THEN [err |-> FALSE, entries |-> <<>>]
            ELSE LET n == UnpackI(ReadAt(header, 8, 4))
                 IN IF n.err THEN [err |-> TRUE, entries |-> <<>>]
                    ELSE ParseEntries(file.bytes, 12, n.val, <<>>)

\* A serialisation that writes the value length before the key length
RECURSIVE SerializeEntriesSwapped(_)
SerializeEntriesSwapped(entries) ==
    IF entries = <<>> THEN <<>>
    ELSE LET k == Head(entries)[1]
             v == Head(entries)[2]
         IN MagicIMEN \o PackI(Len(v)) \o PackI(Len(k)) \o k \o v
            \o SerializeEntriesSwapped(Tail(entries))

RECURSIVE SerializeEntries(_)
SerializeEntries(entries) ==
    IF entries = <<>> THEN <<>>
    ELSE LET k == Head(entries)[1]
             v == Head(entries)[2]
         IN MagicIMEN \o PackI(Len(k)) \o PackI(Len(v)) \o k \o v
            \o SerializeEntries(Tail(entries))

\* What update_imkvdb writes for the dict entries.
SerializeArc(entries) ==
    MagicIMKV \o Zeros(4) \o PackI(Len(entries)) \o SerializeEntries(entries)

\* str.lower() on the characters of the model
Lower(s) ==
    [i \in 1..Len(s) |->
        IF s[i] \in {"A", "B", "C", "D", "E", "F"}
        THEN HexChars[DigitOf(s[i]) + 1] ELSE s[i]]

\* A title key without the 0x01 marker after the identifier
TitleKeyNoMarker(game_id_little_endian) ==
    game_id_little_endian \o Zeros(24) \o <<1>> \o Zeros(31)

TitleKey(game_id_little_endian) ==
    game_id_little_endian \o <<1>> \o Zeros(23) \o <<1>> \o Zeros(31)

\* A title value holding the folder id most significant byte first
TitleValueBigEndian(folder_id_bytes) ==
    [k \in 1..Len(folder_id_bytes) |->
        folder_id_bytes[Len(folder_id_bytes) + 1 - k]]
    \o Zeros(16) \o <<1>> \o Zeros(39)

TitleValue(folder_id_bytes) ==
    folder_id_bytes \o Zeros(16) \o <<1>> \o Zeros(39)

ZeroIdKey(folder_id_bytes) == Zeros(24) \o folder_id_bytes \o Zeros(32)

ZeroIdValue(folder_id_bytes) ==
    folder_id_bytes \o Zeros(60) \o <<1>> \o Zeros(3)

NoEntry == [err |-> TRUE, key |-> <<>>, value |-> <<>>]

\* Lines 159-169 for the lower-cased identifier hex, its value gid = int(hex,
\* 16) and fb = struct.pack('<Q', folder_id)
EntryFor(hex, gid, fb) ==
    IF fb.err \/ gid.err THEN NoEntry
    ELSE IF gid.val = <<>>
         THEN [err |-> FALSE, key |-> ZeroIdKey(fb.val),
               value |-> ZeroIdValue(fb.val)]
         ELSE IF FromHex(hex).err \/ PackQ(gid.val).err THEN NoEntry
              ELSE [err |-> FALSE, key |-> TitleKey(PackQ(gid.val).val),
                    value |-> TitleValue(fb.val)]

\* The key and value update_imkvdb computes, or err when int(), bytes.fromhex
\* or struct.pack raises.
UpdateEntry(game_id_hex, folder_id) ==
    EntryFor(Lower(game_id_hex), IntHex(Lower(game_id_hex)), PackQ(folder_id))

\* An update that stores the entry whether or not the key is present
NeedsInsertAlways(entries, key) == TRUE

\* Whether update_imkvdb inserts and rewrites: "if key not in entries".
NeedsInsert(entries, key) == ~HasKey(entries, key)

\* Lines 173-177: the entry is stored and the whole file is written.
InsertAndWrite(before, after, e) ==
    [err |-> FALSE, file |-> [exists |-> TRUE, bytes |-> SerializeArc(after)],
     changed |-> TRUE, key |-> e.key, value |-> e.value,
     before |-> before, after |-> after]

\* Lines 171-180 for the parsed dict p and the computed entry e
UpdateParsed(file, p, e) ==
    IF p.err \/ e.err
    THEN [err |-> TRUE, file |-> file, changed |-> FALSE,
          key |-> <<>>, value |-> <<>>, before |-> <<>>, after |-> <<>>]
    ELSE IF NeedsInsert(p.entries, e.key)
         THEN InsertAndWrite(p.entries, DictSet(p.entries, e.key, e.value), e)
         ELSE [err |-> FALSE, file |-> file, changed |-> FALSE,
               key |-> e.key, value |-> e.value,
               before |-> p.entries, after |-> p.entries]

\* update_imkvdb(file, game_id_hex, folder_id): the file afterwards, whether
\* the insert branch ran, the dict before and after.
update_imkvdb(file, game_id_hex, folder_id) ==
    UpdateParsed(file, parse_imkvdb(file), UpdateEntry(game_id_hex, folder_id))

-----------------------------------------------------------------------------
(* extract_game_id, read_game_id_from_extradata0, get_latest_save_folder,  *)
(* copy_save_files, populate_system_folders                                *)

None == <<>>      \* Python's None where a str or a path is expected

\* checkpoint_folder_name.split(' ')[0]
SplitFirst(s) ==
    LET sp == {i \in 1..Len(s) : s[i] = " "}
    IN IF sp = {} THEN s
       ELSE SubSeq(s, 1, (CHOOSE i \in sp : \A j \in sp : i <= j) - 1)

\* The formatted identifier, or None when int() raises.
extract_game_id(checkpoint_folder_name) ==
    LET first == SplitFirst(checkpoint_folder_name)
        game_id_hex == SubSeq(first, 3, Len(first))        \* [2:]
        v == IntHex(game_id_hex)
    IN IF v.err THEN None ELSE Format016x(v.val)

\* A reader that takes the first 8 bytes most significant byte first
read_game_id_big_endian(bytes) ==
    IF ReadAt(bytes, 0, 8) = <<>> \/ Len(ReadAt(bytes, 0, 8)) # 8 THEN None
    ELSE Format016x(IntFromBytesBig(ReadAt(bytes, 0, 8)))

\* On the bytes of an ExtraData0 file: the formatted identifier of its first
\* 8 bytes, None when the file is empty or (struct.error, caught) shorter.
read_game_id_from_extradata0(bytes) ==
    LET game_id_bytes == ReadAt(bytes, 0, 8)
    IN IF game_id_bytes = <<>> \/ Len(game_id_bytes) # 8 THEN None
       ELSE Format016x(UnpackQ(game_id_bytes))

\* A choice of the least recently modified backup
get_oldest_save_folder(backups) ==
    IF backups = <<>> THEN 0
    ELSE CHOOSE i \in 1..Len(backups) :
            /\ \A j \in 1..Len(backups) : backups[i].mtime <= backups[j].mtime
            /\ \A j \in 1..(i - 1) : backups[i].mtime < backups[j].mtime

\* backups is the listing of the subdirectories of a title folder.  Index of
\* max(backup_folders, key=os.path.getmtime, default=None): the first of the
\* most recently modified ones, 0 for None.
get_latest_save_folder(backups) ==
    IF backups = <<>> THEN 0
    ELSE CHOOSE i \in 1..Len(backups) :
            /\ \A j \in 1..Len(backups) : backups[j].mtime <= backups[i].mtime
            /\ \A j \in 1..(i - 1) : backups[j].mtime < backups[i].mtime

EmptyTree == [p \in {} |-> ""]

\* copy_save_files: every file of the source tree is written to the same
\* relative path of the destination, existing directories are merged.
copy_save_files(source_files, destination_files) ==
    [p \in DOMAIN source_files \cup DOMAIN destination_files |->
        IF p \in DOMAIN source_files THEN source_files[p]
        ELSE destination_files[p]]

SystemKey(folder_id_bytes)   == Zeros(24) \o folder_id_bytes \o Zeros(32)
SystemValue(folder_id_bytes) == folder_id_bytes \o Zeros(56)

\* The dict populate_system_folders builds from the listing `folders`.
RECURSIVE SystemEntries(_, _)
SystemEntries(folders, entries) ==
    IF folders = <<>> THEN entries
    ELSE LET folder == Head(folders)
             v == IntHex(folder)
         IN IF Len(folder) = 16 /\ ~v.err
            THEN SystemEntries(Tail(folders),
                     DictSet(entries, SystemKey(PackQ(v.val).val),
                             SystemValue(PackQ(v.val).val)))
            ELSE SystemEntries(Tail(folders), entries)

\* initialize_imkvdb (its second definition) with populate_system_folders.
initialize_imkvdb(file, folders) ==
    IF file.exists THEN file
    ELSE LET entries == SystemEntries(folders, <<>>)
         IN IF entries # <<>>
            THEN [exists |-> TRUE, bytes |-> SerializeArc(entries)]
            ELSE file

-----------------------------------------------------------------------------
(* main: one iteration of its loop over the source listing                 *)

\* A directory of bis/user/save holding meta as ExtraData0 and files under 0/
SlotDir(hasMeta, meta, hasPayloadDir, payload) ==
    [isDir |-> TRUE, hasMeta |-> hasMeta, meta |-> meta,
     hasPayloadDir |-> hasPayloadDir, payload |-> payload]

\* The save folders whose ExtraData0 exists and reads as game_id_hex
Matches(S, game_id_hex) ==
    {n \in DOMAIN S : /\ S[n].isDir /\ S[n].hasMeta
                      /\ read_game_id_from_extradata0(S[n].meta) = game_id_hex}

\* The scan of os.listdir(save_data_directory) stops at the first match of
\* the listing, whose order is arbitrary: any match may be the first.
MatchChoices(S, game_id_hex) ==
    IF Matches(S, game_id_hex) = {} THEN {None} ELSE Matches(S, game_id_hex)

Put(S, n, e) == [x \in DOMAIN S \cup {n} |-> IF x = n THEN e ELSE S[x]]

Outcome(crashed, S, file, slot, fresh, latest, upd) ==
    [crashed |-> crashed, slots |-> S, arc |-> file, slot |-> slot,
     fresh |-> fresh, latest |-> latest, changed |-> upd.changed,
     key |-> upd.key, value |-> upd.value]

NoUpd == [changed |-> FALSE, key |-> <<>>, value |-> <<>>]

\* Lines 221-222 of main, S being the save folders after the copy and u the
\* result of update_imkvdb
Recorded(S, file, out, fresh, latest, u) ==
    IF u.err THEN Outcome(TRUE, S, file, out, fresh, latest, NoUpd)
    ELSE Outcome(FALSE, S, u.file, out, fresh, latest, u)

\* Lines 216-222 of main, latest being what get_latest_save_folder returned
CopyLatest(folder, game_id_hex, S, file, out, fresh, latest) ==
    IF IntHex(out).err
    THEN Outcome(TRUE,
                 IF latest = 0 THEN S
                 ELSE [S EXCEPT ![out].payload =
                          copy_save_files(folder.backups[latest].files, @)],
                 file, out, fresh, latest, NoUpd)
    ELSE Recorded(IF latest = 0 THEN S
                  ELSE [S EXCEPT ![out].payload =
                           copy_save_files(folder.backups[latest].files, @)],
                  file, out, fresh, latest,
                  update_imkvdb(file, game_id_hex, IntHex(out).val))

\* Lines 212-222 of main for the resolved output_folder `out`.
CopyAndRecord(folder, game_id_hex, S, file, out, fresh) ==
    CopyLatest(folder, game_id_hex, [S EXCEPT ![out].hasPayloadDir = TRUE],
               file, out, fresh, get_latest_save_folder(folder.backups))

\* Line 210 of main and what follows, next being the new folder's name and
\* rec the bytes of its ExtraData0
CreateSlot(folder, game_id_hex, S, file, next, rec) ==
    IF next.err \/ rec.err
    THEN Outcome(TRUE, S, file, None, FALSE, 0, NoUpd)
    ELSE IF next.val \in DOMAIN S /\ ~S[next.val].isDir
         THEN Outcome(TRUE, S, file, None, FALSE, 0, NoUpd)
         ELSE CopyAndRecord(folder, game_id_hex,
                  IF next.val \in DOMAIN S
                  THEN [S EXCEPT ![next.val].hasMeta = TRUE,
                                 ![next.val].meta = rec.val]
                  ELSE Put(S, next.val, SlotDir(TRUE, rec.val, FALSE, EmptyTree)),
                  file, next.val, TRUE)

\* Lines 207-210 of main: no save folder matched.
AllocateSlot(folder, game_id_hex, S, file) ==
    CreateSlot(folder, game_id_hex, S, file,
               get_next_ryujinx_folder({n \in DOMAIN S : S[n].isDir}),
               create_extradata0_file(game_id_hex))

\* The body of main's loop for a title folder whose name gave game_id_hex;
\* pick is the save folder the scan found, None when it found none.
ImportTitle(folder, game_id_hex, S, file, pick) ==
    IF pick # None
    THEN CopyAndRecord(folder, game_id_hex, S, file, pick, FALSE)
    ELSE AllocateSlot(folder, game_id_hex, S, file)

-----------------------------------------------------------------------------
(* Values of the variables a harness does not use                          *)

NoFile == [exists |-> FALSE, bytes |-> <<>>]

UnitIdle    == uin = NoRes /\ uout = NoRes
ArchiveIdle == origin = NoRes /\ loaded = NoRes /\ lastUpd = NoRes /\ nUpd = 0
ImportIdle  == /\ src = <<>> /\ slots = <<>> /\ sysdirs = {}
               /\ run = 0 /\ idx = 0
               /\ status = "idle" /\ firstUse = <<>> /\ last = NoRes

-----------------------------------------------------------------------------
(* Unit harness: one call of create_extradata0_file or of                  *)
(* get_next_ryujinx_folder on an argument drawn from a bounded set         *)

TitleDigits == {"0", "1", "a", "f"}

\* 16-character lower-case identifiers, as extract_game_id formats them
TitleInputs ==
    {[i \in 1..16 |-> CASE i = 1 -> a [] i = 2 -> b [] i = 16 -> c
                        [] OTHER -> "0"] : a, b, c \in TitleDigits}

Name16(tailChars) ==
    [i \in 1..(16 - Len(tailChars)) |-> "0"] \o tailChars

FolderNames ==
    { Name16(<<"1">>), Name16(<<"3">>), Name16(<<"9">>), Name16(<<"A">>),
      <<"0", "0", "f", "f">>, <<"s", "a", "v", "e", "s">>,
      [i \in 1..16 |-> "f"] }

UnitInit ==
    /\ mode = "unit"
    /\ uout = NoRes
    /\ \/ \E h \in TitleInputs :
             uin = [fn |-> "create_extradata0_file", arg |-> h]
       \/ \E S \in SUBSET FolderNames :
             uin = [fn |-> "get_next_ryujinx_folder", arg |-> S]
    /\ arc = NoFile /\ ArchiveIdle /\ ImportIdle

CallCreateExtraData0 ==
    /\ mode = "unit" /\ uout = NoRes
    /\ uin.fn = "create_extradata0_file"
    /\ uout' = create_extradata0_file(uin.arg)
    /\ UNCHANGED <<mode, uin, arc, archiveVars, importVars>>

CallGetNextFolder ==
    /\ mode = "unit" /\ uout = NoRes
    /\ uin.fn = "get_next_ryujinx_folder"
    /\ uout' = get_next_ryujinx_folder(uin.arg)
    /\ UNCHANGED <<mode, uin, arc, archiveVars, importVars>>

UnitNext == CallCreateExtraData0 \/ CallGetNextFolder

SpecUnit == UnitInit /\ [][UnitNext]_vars

-----------------------------------------------------------------------------
(* Archive harness: imkvdb.arc starts absent, well formed or malformed;    *)
(* parse_imkvdb and update_imkvdb are called on it                         *)

MaxEntries == 2     \* entries of an initial archive
MaxUpd     == 2     \* update_imkvdb calls in one behaviour

ArcKeys == {<<1>>, <<73, 77>>, <<0>>}
ArcVals == {<<>>, <<7, 0, 9>>}

RECURSIVE MapsOfLen(_)
MapsOfLen(n) ==
    IF n = 0 THEN {<<>>}
    ELSE {Append(m, <<k, v>>) : m \in {x \in MapsOfLen(n - 1) : TRUE},
                                k \in ArcKeys, v \in ArcVals}

\* Ordered mappings: sequences of <<key, value>> with pairwise distinct keys
ArcMaps ==
    {m \in UNION {MapsOfLen(n) : n \in 0..MaxEntries} :
        \A i, j \in 1..Len(m) : i # j => m[i][1] # m[j][1]}

\* Offset of the first byte of entry number k (from 1) in SerializeArc(m)
EntryOffset(m, k) == 12 + Len(SerializeEntries(SubSeq(m, 1, k - 1)))

Origins ==
    {[kind |-> "absent", m |-> <<>>, at |-> 0]}
    \cup {[kind |-> "valid", m |-> m, at |-> 0] : m \in ArcMaps}
    \cup {[kind |-> "badmagic", m |-> m, at |-> 0] : m \in ArcMaps}
    \cup UNION {{[kind |-> "shortheader", m |-> m, at |-> c] : c \in 0..11}
                 : m \in ArcMaps}
    \cup UNION {{[kind |-> "truncated", m |-> m, at |-> c]
                    : c \in 12..(Len(SerializeArc(m)) - 1)} : m \in ArcMaps}
    \cup UNION {{[kind |-> "badentry", m |-> m, at |-> k] : k \in 1..Len(m)}
                 : m \in ArcMaps}

\* The file an origin stands for.
FileOf(o) ==
    LET good == SerializeArc(o.m) IN
    CASE o.kind = "absent"      -> NoFile
      [] o.kind = "valid"       -> [exists |-> TRUE, bytes |-> good]
      [] o.kind = "badmagic"    ->
            [exists |-> TRUE, bytes |-> [good EXCEPT ![4] = 88]]
      [] o.kind = "shortheader" ->
            [exists |-> TRUE, bytes |-> SubSeq(good, 1, o.at)]
      [] o.kind = "truncated"   ->
            [exists |-> TRUE, bytes |-> SubSeq(good, 1, o.at)]
      [] o.kind = "badentry"    ->
            [exists |-> TRUE,
             bytes |-> [good EXCEPT ![EntryOffset(o.m, o.at) + 4] = 88]]

Malformed == {"badmagic", "truncated", "badentry"}

UpdTitles == { [i \in 1..16 |-> "0"],
               <<"0","1","0","0","a","2","c","8","0","1","c","6","e","0","0","0">>,
               <<"0","1","0","0","A","2","C","8","0","1","C","6","E","0","0","0">> }
UpdFolderIds == {<<1>>, <<2>>}

ArchiveInit ==
    /\ mode = "archive"
    /\ origin \in Origins
    /\ arc = FileOf(origin)
    /\ loaded = NoRes /\ lastUpd = NoRes /\ nUpd = 0
    /\ UnitIdle /\ ImportIdle

\* A call of parse_imkvdb on the file.
ALoad ==
    /\ mode = "archive" /\ loaded = NoRes
    /\ loaded' = parse_imkvdb(arc)
    /\ UNCHANGED <<mode, arc, origin, lastUpd, nUpd, unitVars, importVars>>

\* A call of update_imkvdb(imkvdb_path, t, s).
AUpdate(t, s) ==
    /\ mode = "archive" /\ nUpd < MaxUpd
    /\ \E r \in {update_imkvdb(arc, t, s)} :
          /\ arc' = r.file
          /\ lastUpd' = [err |-> r.err, title |-> t, folder_id |-> s,
                         changed |-> r.changed, key |-> r.key,
                         value |-> r.value, before |-> r.before,
                         after |-> r.after]
          /\ origin' = IF r.changed
                       THEN [kind |-> "valid", m |-> r.after, at |-> 0]
                       ELSE origin
    /\ nUpd' = nUpd + 1
    /\ loaded' = NoRes
    /\ UNCHANGED <<mode, unitVars, importVars>>

ArchiveNext ==
    \/ ALoad
    \/ \E t \in UpdTitles, s \in UpdFolderIds : AUpdate(t, s)

SpecArchive == ArchiveInit /\ [][ArchiveNext]_vars

-----------------------------------------------------------------------------
(* Import: runs of the script (initialize_imkvdb, then main) over a        *)
(* source listing and a destination drawn from bounded sets                *)

MaxRuns == 2     \* runs of the script in one behaviour

HexT1 == <<"0","1","0","0","a","2","c","8","0","1","c","6","e","0","0","0">>
HexT2 == <<"0","1","0","0","6","f","8","0","0","2","3","2","6","0","0","0">>

TitleFolder(name, backups) == [name |-> name, isDir |-> TRUE, backups |-> backups]
Backup(mtime, files) == [mtime |-> mtime, files |-> files]

\* "0x0100A2C801C6E000 S G", two backups, the second one newer
FolderA ==
    TitleFolder(<<"0","x","0","1","0","0","A","2","C","8","0","1","C","6","E",
                  "0","0","0"," ","S"," ","G">>,
        << Backup(5, ("save.dat" :> "A/old/save.dat") @@ ("old.bin" :> "A/old/old.bin")),
           Backup(9, ("save.dat" :> "A/new/save.dat") @@ ("d/x" :> "A/new/d/x")) >>)
\* "0x100a2c801c6e000 Alt": the same title, the first backup newer
FolderA2 ==
    TitleFolder(<<"0","x","1","0","0","a","2","c","8","0","1","c","6","e",
                  "0","0","0"," ","A","l","t">>,
        << Backup(8, ("save.dat" :> "A2/new/save.dat")),
           Backup(3, ("extra" :> "A2/old/extra")) >>)
\* "0x01006f8002326000 B", one backup
FolderB ==
    TitleFolder(<<"0","x">> \o HexT2 \o <<" ","B">>,
        << Backup(4, ("main" :> "B/only/main")) >>)
\* "0x0 Zero": identifier 0, two backups modified at the same time
FolderZ ==
    TitleFolder(<<"0","x","0"," ","Z","e","r","o">>,
        << Backup(7, ("z" :> "Z/first/z")), Backup(7, ("z" :> "Z/second/z")) >>)
\* "Saves": no identifier
FolderX == TitleFolder(<<"S","a","v","e","s">>, << Backup(1, ("s" :> "X/s")) >>)
\* "0x10000000000000000 Big": identifier 2^64
FolderBig ==
    TitleFolder(<<"0","x","1">> \o [i \in 1..16 |-> "0"] \o <<" ","B","i","g">>,
        << Backup(2, ("b" :> "Big/b")) >>)
\* "0x01 note", a regular file of the source directory
FileF == [name |-> <<"0","x","0","1"," ","n","o","t","e">>, isDir |-> FALSE,
          backups |-> <<>>]
\* "0x2 Empty": a title folder without backup subdirectories
FolderE == TitleFolder(<<"0","x","2"," ","E","m","p","t","y">>, <<>>)

SrcChoices ==
    { <<FolderA>>, <<FolderA, FolderZ>>, <<FolderX, FolderB, FolderA>>,
      <<FolderA, FolderA2, FileF>>, <<FolderZ, FolderE, FolderBig, FolderA>> }

N1 == Name16(<<"1">>)
N2 == Name16(<<"2">>)
N5 == Name16(<<"5">>)
NSaves == <<"s", "a", "v", "e", "s">>
NReadme == <<"r", "e", "a", "d", "m", "e">>
N8 == <<"8">> \o [i \in 1..15 |-> "0"]

\* An ExtraData0 the destination emulator wrote for title hex
NativeMeta(hex) == PackQ(IntHex(hex).val).val \o Zeros(RecordSize - 8)
NativeSlot(hex) == SlotDir(TRUE, NativeMeta(hex), TRUE, ("save.dat" :> "pre"))
PlainFile == [isDir |-> FALSE, hasMeta |-> FALSE, meta |-> <<>>,
              hasPayloadDir |-> FALSE, payload |-> EmptyTree]

\* A title entry the destination emulator wrote: title hex is in folder n
NativeEntry(hex, n) ==
    << PackQ(IntHex(hex).val).val \o <<1>> \o Zeros(23) \o <<1>> \o Zeros(31),
       PackQ(IntHex(n).val).val \o Zeros(16) \o <<1>> \o Zeros(39) >>

ArcOf(entries) == [exists |-> TRUE, bytes |-> SerializeArc(entries)]

\* Destinations: the save folders and an archive whose title entries point
\* to save folders of their title
DestChoices ==
    { [slots |-> <<>>, arc |-> NoFile],
      [slots |-> <<>>, arc |-> ArcOf(<<>>)],
      [slots |-> (N1 :> NativeSlot(HexT1)), arc |-> NoFile],
      [slots |-> (N1 :> NativeSlot(HexT1)), arc |-> ArcOf(<<NativeEntry(HexT1, N1)>>)],
      [slots |-> (N1 :> NativeSlot(HexT1)),
       arc |-> [exists |-> TRUE,
                bytes |-> SubSeq(SerializeArc(<<NativeEntry(HexT1, N1)>>), 1, 18)]],
      [slots |-> (N1 :> NativeSlot(HexT1)) @@ (N2 :> NativeSlot(HexT1)),
       arc |-> ArcOf(<<NativeEntry(HexT1, N2)>>)],
      [slots |-> (N1 :> NativeSlot(HexT2)) @@ (N2 :> NativeSlot(HexT1)),
       arc |-> ArcOf(<<NativeEntry(HexT2, N1), NativeEntry(HexT1, N2)>>)],
      [slots |-> (N5 :> SlotDir(FALSE, <<>>, FALSE, EmptyTree)) @@ (NReadme :> PlainFile),
       arc |-> NoFile],
      [slots |-> (N1 :> NativeSlot(HexT2)) @@ (NSaves :> SlotDir(FALSE, <<>>, FALSE, EmptyTree)),
       arc |-> ArcOf(<<NativeEntry(HexT2, N1)>>)],
      [slots |-> (N1 :> SlotDir(TRUE, <<0, 224, 198>>, TRUE, EmptyTree)),
       arc |-> NoFile],
      [slots |-> (N1 :> NativeSlot(HexT2)) @@ (N2 :> PlainFile),
       arc |-> NoFile] }

SysChoices == { {N8}, {N8, N1, <<"t", "m", "p">>} }

\* The listings of a set of names
Listings(S) ==
    {q \in [1..Cardinality(S) -> S] : \A x \in S : \E i \in DOMAIN q : q[i] = x}

NoUse == [slot |-> None, fresh |-> FALSE]

ImportInit ==
    /\ mode = "import"
    /\ src \in SrcChoices
    /\ \E d \in DestChoices : slots = d.slots /\ arc = d.arc
    /\ sysdirs \in SysChoices
    /\ run = 0 /\ idx = 0 /\ status = "idle"
    /\ firstUse = [i \in 1..Len(src) |-> NoUse]
    /\ last = NoRes
    /\ UnitIdle /\ ArchiveIdle

\* The script starts: initialize_imkvdb, then main enters its loop.
StartRun ==
    /\ mode = "import" /\ status \in {"idle", "done", "crashed"}
    /\ run < MaxRuns
    /\ \E listing \in Listings(sysdirs) :
          arc' = initialize_imkvdb(arc, listing)
    /\ run' = run + 1 /\ idx' = 0 /\ status' = "running"
    /\ last' = NoRes
    /\ UNCHANGED <<mode, src, slots, sysdirs, firstUse, unitVars, archiveVars>>

\* One iteration of main's loop on an entry that is no directory or whose
\* name gives no identifier.
SkipEntry ==
    /\ mode = "import" /\ status = "running" /\ idx < Len(src)
    /\ LET folder == src[idx + 1]
       IN ~folder.isDir \/ extract_game_id(folder.name) = None
    /\ idx' = idx + 1
    /\ last' = [run |-> run, i |-> idx + 1, resolved |-> FALSE]
    /\ UNCHANGED <<mode, src, slots, sysdirs, arc, run, status, firstUse,
                   unitVars, archiveVars>>

\* One iteration of main's loop on a title folder.
ImportFolder ==
    /\ mode = "import" /\ status = "running" /\ idx < Len(src)
    /\ \E folder \in {src[idx + 1]} :
       \E game_id_hex \in {extract_game_id(folder.name)} :
          /\ folder.isDir /\ game_id_hex # None
          /\ \E pick \in MatchChoices(slots, game_id_hex) :
               \E r \in {ImportTitle(folder, game_id_hex, slots, arc, pick)} :
                  /\ slots' = r.slots
                  /\ arc' = r.arc
                  /\ status' = IF r.crashed THEN "crashed" ELSE status
                  /\ last' = [run |-> run, i |-> idx + 1, resolved |-> r.slot # None,
                              crashed |-> r.crashed, title |-> game_id_hex,
                              slot |-> r.slot, fresh |-> r.fresh,
                              latest |-> r.latest, changed |-> r.changed,
                              key |-> r.key, value |-> r.value]
                  /\ firstUse' = IF run = 1 /\ r.slot # None
                                 THEN [firstUse EXCEPT ![idx + 1] =
                                          [slot |-> r.slot, fresh |-> r.fresh]]
                                 ELSE firstUse
    /\ idx' = idx + 1
    /\ UNCHANGED <<mode, src, sysdirs, run, unitVars, archiveVars>>

\* main's loop is over: the script ends.
EndRun ==
    /\ mode = "import" /\ status = "running" /\ idx = Len(src)
    /\ status' = "done"
    /\ UNCHANGED <<mode, src, slots, sysdirs, arc, run, idx, firstUse, last,
                   unitVars, archiveVars>>

Next == StartRun \/ SkipEntry \/ ImportFolder \/ EndRun

Spec == ImportInit /\ [][Next]_vars

-----------------------------------------------------------------------------
(* Properties of create_extradata0_file and get_next_ryujinx_folder,       *)
(* checked under SpecUnit                                                  *)

\* The 8 bytes of a 16-character identifier, least significant first
TitleBytesLE(hex) ==
    [k \in 1..8 |-> 16 * DigitOf(hex[17 - 2*k]) + DigitOf(hex[18 - 2*k])]

\* Offsets of the fields of the record: title id, user id, duplicate title
\* id, flags, journal size, commit id
ListedOffsets ==
    (0..7) \cup (8..23) \cup (64..71) \cup (80..83) \cup (96..103) \cup (104..111)

CreateCalled ==
    mode = "unit" /\ uin.fn = "create_extradata0_file" /\ uout # NoRes

\* C4: for every title id the record written with the default flags, journal
\* size and commit id is exactly 512 bytes long, bytes 0-8 and 64-72 hold the
\* title id in little-endian, and every byte outside the listed fields is 0.
C4_RecordLayout ==
    CreateCalled =>
        /\ ~uout.err
        /\ Len(uout.val) = 512
        /\ SubSeq(uout.val, 1, 8) = TitleBytesLE(uin.arg)
        /\ SubSeq(uout.val, 65, 72) = TitleBytesLE(uin.arg)
        /\ \A i \in 1..Len(uout.val) :
              (i - 1) \notin ListedOffsets => uout.val[i] = 0

IsHexName(f) ==
    /\ f # <<>>
    /\ \A i \in 1..Len(f) :
          f[i] \in {"0","1","2","3","4","5","6","7","8","9","a","b","c","d",
                    "e","f","A","B","C","D","E","F"}

\* The candidate set of the allocator: the values of the names that parse
Candidates(S) == {IntHex(f).val : f \in {g \in S : IsHexName(g)}}

GetNextCalled ==
    mode = "unit" /\ uin.fn = "get_next_ryujinx_folder" /\ uout # NoRes

\* C5: for every set of existing slot-folder names the allocator excludes the
\* names that are no base-16 integers without failing, and returns
\* 0000000000000001 when no candidate is left, otherwise max(candidates)+1 as
\* a 16-character zero-padded lower-case hex string.
C5_NextSlot ==
    GetNextCalled =>
        /\ ~uout.err
        /\ Len(uout.val) = 16
        /\ uout.val = IF Candidates(uin.arg) = {} THEN Name16(<<"1">>)
                      ELSE Format016x(BigInc(BigMax(Candidates(uin.arg))))

-----------------------------------------------------------------------------
(* Properties of parse_imkvdb and update_imkvdb, checked under SpecArchive *)

ParseCalled == mode = "archive" /\ loaded # NoRes

\* C6: loading a malformed archive (wrong header magic, fewer bytes than the
\* declared entry count needs, an entry whose magic does not match) raises no
\* error and yields the empty mapping.
C6_MalformedLoadsEmpty ==
    (ParseCalled /\ origin.kind \in Malformed) =>
        (~loaded.err /\ loaded.entries = <<>>)

\* C7: parsing the bytes written for an ordered mapping yields that mapping,
\* with the same keys, values and order.
C7_RoundTrip ==
    (ParseCalled /\ origin.kind = "valid") =>
        (~loaded.err /\ loaded.entries = origin.m)

\* A mapping of two entries, one with an empty value, was written and parsed.
C7_Witness ==
    /\ ParseCalled /\ origin.kind = "valid"
    /\ Len(origin.m) >= 2
    /\ \E i \in 1..Len(origin.m) : origin.m[i][2] = <<>>
    /\ loaded.entries = origin.m

-----------------------------------------------------------------------------
(* Properties of the import, checked under Spec                            *)

\* The last loop iteration resolved an output folder.
Imported == mode = "import" /\ last # NoRes /\ last.resolved

\* The last loop iteration made update_imkvdb insert an entry.
Inserted == Imported /\ last.changed

\* The 8 little-endian bytes of the id a folder name stands for
SlotBytesLE(name) == TitleBytesLE(Format016x(IntHex(name).val))

ExpectedTitleKey(hex) ==
    TitleBytesLE(hex) \o <<1>> \o Zeros(23) \o <<1>> \o Zeros(31)
ExpectedTitleValue(name) ==
    SlotBytesLE(name) \o Zeros(16) \o <<1>> \o Zeros(39)

LastEntry(file) ==
    parse_imkvdb(file).entries[Len(parse_imkvdb(file).entries)]

ZeroTitle == [i \in 1..16 |-> "0"]

EntryCount(file) ==
    IF parse_imkvdb(file).err THEN 0 ELSE Len(parse_imkvdb(file).entries)

\* C1: in a run that follows a run over the same source, no slot folder is
\* created, the number of archive entries stays what it was, and a title
\* whose slot the first run created is matched to that slot.
C1_ReimportIdempotent ==
    [][ (mode = "import" /\ run' >= 2) =>
          /\ DOMAIN slots' = DOMAIN slots
          /\ EntryCount(arc') = EntryCount(arc)
          /\ (idx' = idx + 1 /\ last'.resolved /\ firstUse[idx'].fresh) =>
                (last'.slot = firstUse[idx'].slot /\ ~last'.fresh) ]_vars

\* The second run is over and its last import matched the slot the first
\* run had created, leaving the archive as it was.
C1_Witness ==
    /\ Imported /\ run = 2 /\ status = "done"
    /\ firstUse[last.i].fresh /\ last.slot = firstUse[last.i].slot
    /\ ~last.fresh /\ ~last.changed /\ ~last.crashed
    /\ EntryCount(arc) >= 2

\* The title a record holds: its first 8 bytes
RecordTitle(meta) == SubSeq(meta, 1, IF Len(meta) < 8 THEN Len(meta) ELSE 8)

\* C2: a slot folder whose record holds a title keeps a record of that title
\* through every step, and a freshly allocated slot did not exist before.
C2_SlotNeverReassigned ==
    [][ mode = "import" =>
          /\ \A n \in DOMAIN slots :
                (slots[n].isDir /\ slots[n].hasMeta) =>
                    /\ n \in DOMAIN slots'
                    /\ slots'[n].hasMeta
                    /\ RecordTitle(slots'[n].meta) = RecordTitle(slots[n].meta)
          /\ (idx' = idx + 1 /\ last'.resolved /\ last'.fresh) =>
                last'.slot \notin DOMAIN slots ]_vars

\* A fresh slot was allocated beside a slot that holds another title.
C2_Witness ==
    /\ Imported /\ last.fresh
    /\ RecordTitle(slots[last.slot].meta) = TitleBytesLE(last.title)
    /\ \E n \in DOMAIN slots :
          /\ n # last.slot /\ slots[n].isDir /\ slots[n].hasMeta
          /\ Len(slots[n].meta) >= 8
          /\ RecordTitle(slots[n].meta) # TitleBytesLE(last.title)

DistinctTimes(folder) ==
    /\ Len(folder.backups) >= 2
    /\ \A i, j \in 1..Len(folder.backups) :
          i # j => folder.backups[i].mtime # folder.backups[j].mtime

Newest(folder) ==
    CHOOSE i \in 1..Len(folder.backups) :
        \A j \in 1..Len(folder.backups) :
            j # i => folder.backups[j].mtime < folder.backups[i].mtime

\* C8: when a title folder has two or more backups with different
\* modification times, its import writes every file of the most recently
\* modified backup into the slot's payload (a fresh slot holds nothing
\* else), and no file of an older backup is in any payload.
C8_LatestBackupOnly ==
    mode = "import" =>
      /\ (last # NoRes /\ last.resolved /\ DistinctTimes(src[last.i])) =>
            /\ \A p \in DOMAIN src[last.i].backups[Newest(src[last.i])].files :
                  /\ p \in DOMAIN slots[last.slot].payload
                  /\ slots[last.slot].payload[p] =
                        src[last.i].backups[Newest(src[last.i])].files[p]
            /\ last.fresh =>
                  slots[last.slot].payload =
                     src[last.i].backups[Newest(src[last.i])].files
      /\ \A i \in 1..Len(src) :
            DistinctTimes(src[i]) =>
               \A j \in 1..Len(src[i].backups) :
                  j # Newest(src[i]) =>
                     \A p \in DOMAIN src[i].backups[j].files :
                        \A n \in DOMAIN slots :
                           \A q \in DOMAIN slots[n].payload :
                              slots[n].payload[q] # src[i].backups[j].files[p]

\* A title with an older and a newer backup was imported over a slot that
\* held a file of the same name: the newer backup's file replaced it.
C8_Witness ==
    /\ Imported /\ ~last.fresh /\ DistinctTimes(src[last.i])
    /\ Newest(src[last.i]) = 2
    /\ slots[last.slot].payload["save.dat"] = "A/new/save.dat"
    /\ "old.bin" \notin DOMAIN slots[last.slot].payload

IsTitleKey(k) ==
    /\ Len(k) = 64 /\ k[9] = 1 /\ k[33] = 1
    /\ \A i \in 10..64 : i # 33 => k[i] = 0

\* Folder n is a slot whose record holds the title with bytes t8.
SlotHoldsTitle(n, t8) ==
    /\ n \in DOMAIN slots /\ slots[n].isDir /\ slots[n].hasMeta
    /\ Len(slots[n].meta) >= 8
    /\ RecordTitle(slots[n].meta) = t8

\* Every title entry of the archive points to a slot whose record holds the
\* entry's title, and that slot is the one the last import of the title used.
ArchiveMatchesSlots ==
    parse_imkvdb(arc).err \/
    \A x \in 1..Len(parse_imkvdb(arc).entries) :
       \E e \in {parse_imkvdb(arc).entries[x]} :
          IsTitleKey(e[1]) =>
             \E n \in DOMAIN slots :
                /\ IsHexName(n) /\ Len(e[2]) >= 8
                /\ SlotBytesLE(n) = SubSeq(e[2], 1, 8)
                /\ SlotHoldsTitle(n, SubSeq(e[1], 1, 8))
                /\ (last # NoRes /\ last.resolved /\ ~last.crashed
                      /\ TitleBytesLE(last.title) = SubSeq(e[1], 1, 8))
                   => n = last.slot

\* No two slot folders hold records of the same title.
NoDuplicateTitles ==
    \A n1, n2 \in DOMAIN slots :
       (/\ n1 # n2
        /\ slots[n1].isDir /\ slots[n1].hasMeta /\ Len(slots[n1].meta) >= 8
        /\ slots[n2].isDir /\ slots[n2].hasMeta /\ Len(slots[n2].meta) >= 8)
       => RecordTitle(slots[n1].meta) # RecordTitle(slots[n2].meta)

\* C10 as stated: from a destination whose title entries point to slots of
\* their title, after any sequence of imports every title entry points to a
\* slot whose record holds its title, the slot the import of that title used.
C10_ArchiveMatchesSlots == mode = "import" => ArchiveMatchesSlots

\* C10 amended: the same, from a destination in which moreover no two slots
\* hold records of the same title.
C10_ArchiveMatchesUniqueSlots ==
    (mode = "import" /\ NoDuplicateTitles) => ArchiveMatchesSlots

\* A title the archive already bound to a slot was imported into that slot,
\* beside a slot of another title.
C10_Witness ==
    /\ Imported /\ NoDuplicateTitles /\ ~last.crashed /\ ~last.fresh
    /\ ~last.changed
    /\ Cardinality(DOMAIN slots) >= 2
    /\ \E x \in 1..Len(parse_imkvdb(arc).entries) :
          /\ parse_imkvdb(arc).entries[x][1] = ExpectedTitleKey(last.title)
          /\ parse_imkvdb(arc).entries[x][2] = ExpectedTitleValue(last.slot)

====
